---- MODULE Spec2Model ----
(***************************************************************************)
(* Model of the tiny-entities simulation core:                             *)
(*   SimpleWorld                (src/world/physics.py)                     *)
(*   NonDeterministicWorldModel (src/world/non_deterministic.py)           *)
(*   EnhancedBrain resources    (src/creatures/brain.py)                   *)
(*   SimulationEngine.step      (src/simulation/engine.py)                 *)
(*   EmergentLifeSimulation.simulation_step (src/simulation/main_loop.py)  *)
(*   SimulationOrchestrator.reset (src/simulation/orchestrator.py)         *)
(*                                                                         *)
(* Units: health and energy are kept in tenths (100.0 is 1000); sound      *)
(* frequency and amplitude are kept in thousandths (0.8 is 800).           *)
(***************************************************************************)
EXTENDS Integers, Sequences, FiniteSets, TLC

\* ------------------------------------------------------------------ bounds
Width == 3
Height == 1
NumCreatures == 3
MaxTicks == 2
MaxOps == 3
MaxBrainCalls == 3
ApiWidth == 3
ApiHeight == 3
MaxApiCalls == 1
MaxRadius == 2

\* ------------------------------------------------------- program constants
EMPTY == 0
FOOD == 1
OBSTACLE == 2
CREATURE == 3
ViewRadius == 5
PreferredMargin == 10
HearingRange == 3
SocialRange == 2
SoundAmplitude == 800
LowFrequency == 300
HighFrequency == 700
DecayNum == 9
DecayDen == 10
HealAmount == 200
RefillAmount == 300
ResourceCap == 1000
InitialValence == 0
InitialArousal == 500
FastLearning == 100
SlowLearning == 10
ArousalDecay == 990
RecentOutcomes == 10
DefaultTokens == 10
DefaultMaxTokens == 50
MaxMemory == 20
TokenThreshold == 5
TokenCost == 3

Creatures == 1..NumCreatures
NoPos == <<-1, -1>>

\* the situations the mood system stores outcomes for
SituationKeys == {"food_True", "food_False"}


VALID_ACTIONS ==
    {"move_north", "move_south", "move_east", "move_west", "explore",
     "stay", "eat", "listen", "make_sound_low", "make_sound_high"}

base_actions == VALID_ACTIONS

Directions == {"north", "south", "east", "west"}

Abs(n) == IF n < 0 THEN -n ELSE n
Min(a, b) == IF a < b THEN a ELSE b
Max(a, b) == IF a > b THEN a ELSE b

Manhattan(p, q) == Abs(p[1] - q[1]) + Abs(p[2] - q[2])

VARIABLES
    grid,               \* SimpleWorld.grid: Cells -> 0..3
    sound_grid,         \* SimpleWorld.sound_grid: Cells -> <<frequency, amplitude>>
    creature_positions, \* NonDeterministicWorldModel.creature_positions (NoPos: no entry)
    position,           \* creature["position"] of the roster
    alive,              \* creature["alive"]
    health,             \* brain.health
    energy,             \* brain.energy
    cfg,                \* configuration of the run (fixed after construction)
    step_count,         \* engine.step_count / simulation.step_count
    idx,                \* place in the roster loop of the running step (0: no step running)
    ticks,              \* number of step calls started so far
    ops,                \* number of creature cycles carried out so far
    events,             \* the list the running step call has built so far
    lastEv,             \* the last thing a step did for a creature (the engine's event)
    brain,              \* one EnhancedBrain object, for the calls made on a brain directly
    mood,               \* the EmergentMoodSystem object that brain owns
    run,                \* the run loop that drives the steps: its state and max_steps
    ret                 \* the last direct call on a world or brain object, with what it returned

\* the objects that the step routines do not touch
aux == <<brain, mood, run, ret>>

\* the world, the roster and the step in progress
world == <<grid, sound_grid, creature_positions, position, alive, health,
           energy, cfg, step_count, idx, ticks, ops, events, lastEv>>

vars == <<grid, sound_grid, creature_positions, position, alive, health,
          energy, cfg, step_count, idx, ticks, ops, events, lastEv,
          brain, mood, run, ret>>

\* ------------------------------------------------------------ SimpleWorld
\* the cells of the world, as <<x, y>>
Cells == (0..(cfg.width - 1)) \X (0..(cfg.height - 1))

InBounds(x, y) == 0 <= x /\ x < cfg.width /\ 0 <= y /\ y < cfg.height

\* a window whose upper ends stop one cell short
WindowCellsShort(x, y, radius) ==
    LET x1 == Max(0, x - radius)
        x2 == Min(cfg.width, x + radius)
        y1 == Max(0, y - radius)
        y2 == Min(cfg.height, y + radius)
    IN  {c \in Cells : x1 <= c[1] /\ c[1] < x2 /\ y1 <= c[2] /\ c[2] < y2}

\* get_local_view: the window [x-r, x+r] x [y-r, y+r] clipped to the world,
\* and the counts of the cell codes inside it
WindowCells(x, y, radius) ==
    LET x1 == Max(0, x - radius)
        x2 == Min(cfg.width, x + radius + 1)
        y1 == Max(0, y - radius)
        y2 == Min(cfg.height, y + radius + 1)
    IN  {c \in Cells : x1 <= c[1] /\ c[1] < x2 /\ y1 <= c[2] /\ c[2] < y2}

get_local_view(g, x, y, radius) ==
    LET visual == WindowCells(x, y, radius)
    IN  [visual         |-> visual,
         food_count     |-> Cardinality({c \in visual : g[c] = FOOD}),
         obstacle_count |-> Cardinality({c \in visual : g[c] = OBSTACLE}),
         creature_count |-> Cardinality({c \in visual : g[c] = CREATURE})]

\* an update_sound that overwrites every neighbour, louder or not
update_sound_overwrites(s, x, y, frequency, amplitude) ==
    IF ~InBounds(x, y) THEN s
    ELSE [c \in Cells |->
            IF c = <<x, y>> THEN <<frequency, amplitude>>
            ELSE IF Abs(c[1] - x) <= 1 /\ Abs(c[2] - y) <= 1
                 THEN <<frequency, amplitude \div 2>>
                 ELSE s[c]]

\* update_sound: the cell takes (frequency, amplitude); each in-bounds
\* neighbour quieter than half the amplitude takes (frequency, amplitude/2)
update_sound(s, x, y, frequency, amplitude) ==
    IF ~InBounds(x, y) THEN s
    ELSE [c \in Cells |->
            IF c = <<x, y>> THEN <<frequency, amplitude>>
            ELSE IF Abs(c[1] - x) <= 1 /\ Abs(c[2] - y) <= 1
                    /\ (amplitude \div 2) > s[c][2]
                 THEN <<frequency, amplitude \div 2>>
                 ELSE s[c]]

\* _spawn_food: every sampled cell that is Empty becomes Food
RECURSIVE _spawn_food(_, _)
_spawn_food(g, samples) ==
    IF samples = <<>> THEN g
    ELSE LET c == Head(samples)
             g1 == IF g[c] = EMPTY THEN [g EXCEPT ![c] = FOOD] ELSE g
         IN  _spawn_food(g1, Tail(samples))

\* _spawn_food: the number of samples, int(width * height * density)
food_count(density) == (cfg.width * cfg.height * density) \div 1000

\* SimpleWorld.step: whether random() < food_respawn_probability can come out
\* true and whether it can come out false
RespawnDraws(probability) ==
    {b \in BOOLEAN : IF b THEN probability > 0 ELSE probability < 1000}

\* SimpleWorld.step, sound part: the whole array is multiplied by the decay rate
DecaySound(s) ==
    [c \in Cells |-> <<(s[c][1] * DecayNum) \div DecayDen,
                       (s[c][2] * DecayNum) \div DecayDen>>]

\* ------------------------------------------- NonDeterministicWorldModel
_is_valid_position(pos) == InBounds(pos[1], pos[2])

\* a clamp that wraps around the world edges instead
_clamp_position_wraps(pos) == <<pos[1] % cfg.width, pos[2] % cfg.height>>

\* _clamp_position: each coordinate is brought into 0..limit-1
_clamp_position(pos) ==
    <<Max(0, Min(pos[1], cfg.width - 1)), Max(0, Min(pos[2], cfg.height - 1))>>

\* the ids that have an entry in the position table
Tracked(table) == {j \in Creatures : table[j] # NoPos}

\* candidate cell of a movement, edges respected
MoveTarget(dir, pos) ==
    LET x == pos[1]
        y == pos[2]
    IN  IF dir = "north" /\ y > 0 THEN <<x, y - 1>>
        ELSE IF dir = "south" /\ y < cfg.height - 1 THEN <<x, y + 1>>
        ELSE IF dir = "east" /\ x < cfg.width - 1 THEN <<x + 1, y>>
        ELSE IF dir = "west" /\ x > 0 THEN <<x - 1, y>>
        ELSE pos

Candidate(action, direction, pos) ==
    LET raw == IF action = "move_north" THEN MoveTarget("north", pos)
               ELSE IF action = "move_south" THEN MoveTarget("south", pos)
               ELSE IF action = "move_east" THEN MoveTarget("east", pos)
               ELSE IF action = "move_west" THEN MoveTarget("west", pos)
               ELSE IF action = "explore" THEN MoveTarget(direction, pos)
               ELSE pos
    IN  IF _is_valid_position(raw) THEN raw ELSE pos

IsSoundAction(action) == action \in {"make_sound_low", "make_sound_high"}

\* a collision check that ignores the position table
BlockedByNobody(table, id, cell) == FALSE

\* the position-table entry of another creature equals the cell
BlockedByCreature(table, id, cell) ==
    \E j \in Tracked(table) : j # id /\ table[j] = cell

\* the number of other table entries within Manhattan distance d of pos
CountWithin(table, id, pos, d) ==
    Cardinality({j \in Tracked(table) : j # id /\ Manhattan(table[j], pos) <= d})

\* _execute_action: the result record and the world after it
_execute_action(g, s, table, id, action, direction, pos) ==
    LET cand == Candidate(action, direction, pos)
        moving == cand # pos
        hitObstacle == moving /\ g[cand] = OBSTACLE
        afterGrid == IF hitObstacle THEN pos ELSE cand
        hitCreature == moving /\ BlockedByCreature(table, id, afterGrid)
        newPos == IF hitCreature THEN pos ELSE afterGrid
        moveEffect == IF hitObstacle \/ hitCreature THEN "collision"
                      ELSE IF moving /\ g[cand] = FOOD THEN "found_food"
                      ELSE "none"
        eats == action = "eat" /\ g[pos] = FOOD
        g1 == IF eats THEN [g EXCEPT ![pos] = EMPTY] ELSE g
        eatEffect == IF eats THEN "found_food" ELSE moveEffect
        sounds == IsSoundAction(action)
        freq == IF action = "make_sound_low" THEN LowFrequency ELSE HighFrequency
        s1 == IF sounds THEN update_sound(s, pos[1], pos[2], freq, SoundAmplitude) ELSE s
        effect == IF sounds THEN "made_sound" ELSE eatEffect
        responded == IF sounds THEN CountWithin(table, id, pos, HearingRange) ELSE 0
        near == CountWithin(table, id, pos, SocialRange)
    IN  [new_position        |-> newPos,
         candidate           |-> cand,
         effect              |-> effect,
         creatures_responded |-> responded,
         near_creatures      |-> near,
         grid                |-> g1,
         sound_grid          |-> s1,
         table               |-> [table EXCEPT ![id] = newPos]]

\* a validation that lets an unknown action through as "eat"
ValidatedActionEats(action0) ==
    IF action0 \in VALID_ACTIONS THEN action0 ELSE "eat"

\* propose_action, action validation: an unknown action is treated as "stay"
ValidatedAction(action0) ==
    IF action0 \in VALID_ACTIONS THEN action0 ELSE "stay"

\* propose_action, position validation: an out-of-range position is clamped
ValidatedPosition(pos0) ==
    IF _is_valid_position(pos0) THEN pos0 ELSE _clamp_position(pos0)

\* a propose_action whose table entry stays at the position before the move
propose_action_stale_table(g, s, table, id, action0, direction, pos0, accepted) ==
    LET action == ValidatedAction(action0)
        current_pos == ValidatedPosition(pos0)
        table1 == [table EXCEPT ![id] = current_pos]
    IN  IF ~accepted
        THEN [accepted            |-> FALSE,
              new_position        |-> current_pos,
              candidate           |-> NoPos,
              effect              |-> "action_blocked",
              creatures_responded |-> 0,
              near_creatures      |-> 0,
              grid                |-> g,
              sound_grid          |-> s,
              table               |-> table1]
        ELSE [accepted |-> TRUE]
             @@ [_execute_action(g, s, table1, id, action, direction, current_pos)
                    EXCEPT !.table = table1]

\* a propose_action that has lost the early return of the rejected branch
propose_action_falls_through(g, s, table, id, action0, direction, pos0, accepted) ==
    LET action == ValidatedAction(action0)
        current_pos == ValidatedPosition(pos0)
        table1 == [table EXCEPT ![id] = current_pos]
        result == _execute_action(g, s, table1, id, action, direction, current_pos)
    IN  [accepted |-> accepted] @@
        (IF accepted THEN result
         ELSE [result EXCEPT !.effect = "action_blocked", !.candidate = NoPos])

\* propose_action: an unknown action becomes "stay", an out-of-range position
\* is clamped, the table entry is set, then the world accepts or rejects
propose_action(g, s, table, id, action0, direction, pos0, accepted) ==
    LET action == ValidatedAction(action0)
        current_pos == ValidatedPosition(pos0)
        table1 == [table EXCEPT ![id] = current_pos]
    IN  IF ~accepted
        THEN [accepted            |-> FALSE,
              new_position        |-> current_pos,
              candidate           |-> NoPos,
              effect              |-> "action_blocked",
              creatures_responded |-> 0,
              near_creatures      |-> 0,
              grid                |-> g,
              sound_grid          |-> s,
              table               |-> table1]
        ELSE [accepted |-> TRUE]
             @@ _execute_action(g, s, table1, id, action, direction, current_pos)

\* ---------------------------------------------------------- EnhancedBrain
\* process_timestep, step 7: heal and refill on "found_food", then the
\* per-step energy cost, then the health decay when no energy is left
HealthAfterFoodUncapped(h, effect) ==
    IF effect = "found_food" THEN h + HealAmount ELSE h

HealthAfterFood(h, effect) ==
    IF effect = "found_food" THEN Min(ResourceCap, h + HealAmount) ELSE h

EnergyAfterFood(e, effect) ==
    IF effect = "found_food" THEN Min(ResourceCap, e + RefillAmount) ELSE e

\* a process_timestep whose health does not decay when the energy is used up
process_timestep_no_decay(h, e, effect, energy_cost, health_decay) ==
    LET h1 == HealthAfterFood(h, effect)
        e1 == EnergyAfterFood(e, effect)
        e2 == e1 - energy_cost
    IN  [health |-> h1, energy |-> e2]

process_timestep(h, e, effect, energy_cost, health_decay) ==
    LET h1 == HealthAfterFood(h, effect)
        e1 == EnergyAfterFood(e, effect)
        e2 == e1 - energy_cost
        h2 == IF e2 <= 0 THEN h1 - health_decay ELSE h1
    IN  [health |-> h2, energy |-> e2]

\* a death check that lets a creature with health exactly 0 live on
IsDeadBelowZero(h) == h < 0

\* the engine's death check after process_timestep
IsDead(h) == h <= 0

\* --------------------------------------------------------- configuration
\* starting resources and per-step costs of CreatureConfig, whether an
\* advisory oracle is configured, and which step routine drives the run
Routines == {"engine", "main_loop"}

\* probabilities and densities are in thousandths
Configs ==
    { [starting_health |-> 1000, starting_energy |-> 1000,
       energy_cost_per_step |-> 10, health_decay_rate |-> 1,
       food_respawn_probability |-> 0, food_respawn_amount |-> 5,
       routine |-> "engine", use_llm |-> TRUE, width |-> Width, height |-> Height],
      [starting_health |-> 1, starting_energy |-> 10,
       energy_cost_per_step |-> 10, health_decay_rate |-> 1,
       food_respawn_probability |-> 0, food_respawn_amount |-> 5,
       routine |-> "engine", use_llm |-> FALSE, width |-> Width, height |-> Height],
      [starting_health |-> 1, starting_energy |-> 10,
       energy_cost_per_step |-> 400, health_decay_rate |-> 1,
       food_respawn_probability |-> 10, food_respawn_amount |-> 200,
       routine |-> "main_loop", use_llm |-> TRUE, width |-> Width, height |-> Height] }

\* _random_coordinate_with_margin: a start coordinate, away from the edges
\* where the world is large enough
StartCoordinates(limit) ==
    IF limit <= 1 THEN {0}
    ELSE LET margin == Min(PreferredMargin, Max(0, (limit - 1) \div 2))
             low == margin
             high == limit - margin
         IN  IF high <= low THEN 0..(limit - 1) ELSE low..(high - 1)

StartCells == StartCoordinates(cfg.width) \X StartCoordinates(cfg.height)

\* grids a world can hold after construction
InitGrids ==
    { [c \in Cells |-> IF c = <<1, 0>> THEN FOOD
                       ELSE IF c = <<2, 0>> THEN OBSTACLE ELSE EMPTY] }

NoEvent ==
    [type |-> "none", creature_id |-> 0, action |-> "none", accepted |-> FALSE,
     old_position |-> NoPos, new_position |-> NoPos, candidate |-> NoPos,
     effect |-> "none",
     creatures_responded |-> 0, near_creatures |-> 0,
     creature_count |-> 0, food_count |-> 0, died |-> FALSE]

\* objects that a specification does not use stay at these values
NoBrain == [health |-> 0, energy |-> 0, action_tokens |-> 0, max_tokens |-> 0,
            perception_memory |-> <<>>]

NoMood == [valence |-> 0, arousal |-> 0, expected_reward |-> 0,
           situation_outcomes |-> <<>>]

NoRun == [state |-> "none", max_steps |-> 0]

NoCall == [op |-> "none"]

Init ==
    /\ cfg \in Configs
    /\ grid \in InitGrids
    /\ sound_grid = [c \in Cells |-> <<0, 0>>]
    /\ creature_positions = [i \in Creatures |-> NoPos]
    /\ position \in [Creatures -> StartCells]
    /\ alive = [i \in Creatures |-> TRUE]
    /\ health = [i \in Creatures |-> cfg.starting_health]
    /\ energy = [i \in Creatures |-> cfg.starting_energy]
    /\ step_count = 0
    /\ idx = 0
    /\ ticks = 0
    /\ ops = 0
    /\ events = <<>>
    /\ lastEv = NoEvent
    /\ brain = NoBrain
    /\ mood = NoMood
    /\ run = NoRun
    /\ ret = NoCall

\* entries of the list a step call builds: what was done, for which creature,
\* and for an executed action the cell it aimed at and its effect
Event(type, id) ==
    [type |-> type, creature_id |-> id, old_position |-> NoPos,
     candidate |-> NoPos, effect |-> "none"]

ActionEvent(id, old_position, outcome) ==
    [type |-> "action", creature_id |-> id, old_position |-> old_position,
     candidate |-> outcome.candidate, effect |-> outcome.effect]

\* ------------------------------------------------------- the step routines
\* step() / simulation_step() is entered: the roster loop starts
StartStep ==
    /\ idx = 0
    /\ ticks < MaxTicks
    /\ idx' = 1
    /\ ticks' = ticks + 1
    /\ events' = <<>>
    /\ lastEv' = [NoEvent EXCEPT !.type = "start"]
    /\ UNCHANGED <<grid, sound_grid, creature_positions, position, alive,
                   health, energy, cfg, step_count, ops>>
    /\ UNCHANGED aux

\* a creature that is not alive is passed over
SkipDead ==
    /\ idx \in Creatures
    /\ ~alive[idx]
    /\ idx' = idx + 1
    /\ lastEv' = [NoEvent EXCEPT !.type = "skip", !.creature_id = idx]
    /\ UNCHANGED <<grid, sound_grid, creature_positions, position, alive,
                   health, energy, cfg, step_count, ticks, ops, events>>
    /\ UNCHANGED aux

\* perceive, select, propose, move, process_timestep and the death check,
\* for the creature the loop is at
ProcessCreature ==
    /\ idx \in Creatures
    /\ alive[idx]
    /\ ops < MaxOps
    /\ ops' = ops + 1
    /\ \E accepted \in BOOLEAN, action \in base_actions :
       \E direction \in (IF accepted /\ action = "explore" THEN Directions ELSE {"north"}) :
         LET world_view == get_local_view(grid, position[idx][1], position[idx][2], ViewRadius)
             outcome == propose_action(grid, sound_grid, creature_positions, idx,
                                       action, direction, position[idx], accepted)
             brain_update == process_timestep(health[idx], energy[idx], outcome.effect,
                                              cfg.energy_cost_per_step, cfg.health_decay_rate)
             died == IsDead(brain_update.health)
         IN  /\ grid' = outcome.grid
             /\ sound_grid' = outcome.sound_grid
             /\ creature_positions' = outcome.table
             /\ position' = [position EXCEPT ![idx] = outcome.new_position]
             /\ health' = [health EXCEPT ![idx] = brain_update.health]
             /\ energy' = [energy EXCEPT ![idx] = brain_update.energy]
             /\ alive' = [alive EXCEPT ![idx] = ~died]
             /\ lastEv' = [type |-> "action", creature_id |-> idx,
                           action |-> IF outcome.accepted THEN action ELSE "none",
                           accepted |-> outcome.accepted,
                           old_position |-> position[idx],
                           new_position |-> outcome.new_position,
                           candidate |-> outcome.candidate,
                           effect |-> outcome.effect,
                           creatures_responded |-> outcome.creatures_responded,
                           near_creatures |-> outcome.near_creatures,
                           creature_count |-> world_view.creature_count,
                           food_count |-> world_view.food_count,
                           died |-> died]
             /\ events' = events \o
                    (IF died THEN <<ActionEvent(idx, position[idx], outcome), Event("death", idx)>>
                     ELSE <<ActionEvent(idx, position[idx], outcome)>>)
    /\ idx' = idx + 1
    /\ UNCHANGED <<cfg, step_count, ticks>>
    /\ UNCHANGED aux

\* select_action raises while consulting the oracle; SimulationEngine.step
\* logs the error and goes on with the next creature
SelectRaisesEngine ==
    /\ idx \in Creatures
    /\ alive[idx]
    /\ cfg.use_llm
    /\ cfg.routine = "engine"
    /\ idx' = idx + 1
    /\ events' = Append(events, Event("error", idx))
    /\ lastEv' = [NoEvent EXCEPT !.type = "error", !.creature_id = idx]
    /\ UNCHANGED <<grid, sound_grid, creature_positions, position, alive,
                   health, energy, cfg, step_count, ticks, ops>>
    /\ UNCHANGED aux

\* the same failure in simulation_step, which has no handler: the exception
\* leaves the routine
SelectRaisesMainLoop ==
    /\ idx \in Creatures
    /\ alive[idx]
    /\ cfg.use_llm
    /\ cfg.routine = "main_loop"
    /\ idx' = 0
    /\ events' = <<>>
    /\ lastEv' = [NoEvent EXCEPT !.type = "raised", !.creature_id = idx]
    /\ UNCHANGED <<grid, sound_grid, creature_positions, position, alive,
                   health, energy, cfg, step_count, ticks, ops>>
    /\ UNCHANGED aux

\* a step that runs world.step() but forgets the counter
FinishStepNoCount ==
    /\ idx = NumCreatures + 1
    /\ \E respawn \in RespawnDraws(cfg.food_respawn_probability) :
       \E samples \in [1..food_count(cfg.food_respawn_amount) -> Cells] :
         grid' = IF respawn THEN _spawn_food(grid, samples) ELSE grid
    /\ sound_grid' = DecaySound(sound_grid)
    /\ idx' = 0
    /\ events' = <<>>
    /\ lastEv' = [NoEvent EXCEPT !.type = "performance"]
    /\ UNCHANGED <<creature_positions, position, alive, health, energy, cfg,
                   ticks, ops, step_count>>
    /\ UNCHANGED aux

\* after the roster loop: world.step() and the step counter
FinishStep ==
    /\ idx = NumCreatures + 1
    /\ \E respawn \in RespawnDraws(cfg.food_respawn_probability) :
       \E samples \in [1..food_count(cfg.food_respawn_amount) -> Cells] :
         grid' = IF respawn THEN _spawn_food(grid, samples) ELSE grid
    /\ sound_grid' = DecaySound(sound_grid)
    /\ step_count' = step_count + 1
    /\ idx' = 0
    /\ events' = <<>>
    /\ lastEv' = [NoEvent EXCEPT !.type = "performance"]
    /\ UNCHANGED <<creature_positions, position, alive, health, energy, cfg, ticks, ops>>
    /\ UNCHANGED aux

\* SimulationOrchestrator.reset, between two steps of its engine
Reset ==
    /\ idx = 0
    /\ cfg.routine = "engine"
    /\ step_count > 0
    /\ step_count' = 0
    /\ lastEv' = [NoEvent EXCEPT !.type = "reset"]
    /\ UNCHANGED <<grid, sound_grid, creature_positions, position, alive,
                   health, energy, cfg, idx, ticks, ops, events>>
    /\ UNCHANGED aux

Next ==
    \/ StartStep
    \/ SkipDead
    \/ ProcessCreature
    \/ SelectRaisesEngine
    \/ SelectRaisesMainLoop
    \/ FinishStep
    \/ Reset

Spec == Init /\ [][Next]_vars

\* ------------------------------------------- EmergentMoodSystem (one object)
\* valence, arousal and rewards are kept in thousandths
\* EmergentMoodSystem.__init__
EmergentMoodSystem ==
    [valence |-> InitialValence, arousal |-> InitialArousal,
     expected_reward |-> 0,
     situation_outcomes |-> [k \in SituationKeys |-> <<>>]]

\* _hash_situation: food nearby or not (creatures_nearby is 0 and the sound
\* level is low in every situation used here)
_hash_situation(seen_food) == IF seen_food > 0 THEN "food_True" ELSE "food_False"

RECURSIVE SumSeq(_)
SumSeq(q) == IF q = <<>> THEN 0 ELSE Head(q) + SumSeq(Tail(q))

\* _predict_reward: the mean of the last ten outcomes stored for the situation
_predict_reward(outcomes) ==
    LET n == Len(outcomes)
        recent_outcomes == IF n > RecentOutcomes
                           THEN SubSeq(outcomes, n - RecentOutcomes + 1, n)
                           ELSE outcomes
    IN  IF n = 0 THEN 0 ELSE SumSeq(recent_outcomes) \div Len(recent_outcomes)

\* np.clip(v, -1.0, 1.0)
Clip(v) == Max(-1000, Min(1000, v))

\* a process_experience that adds the valence change without np.clip
process_experience_unclipped(m, situation_key, actual_reward) ==
    LET prediction_error == actual_reward - m.expected_reward
        arousal_change == (Abs(prediction_error) * FastLearning) \div 1000
        arousal1 == Min(1000, m.arousal + arousal_change)
        valence_change == (prediction_error * SlowLearning) \div 1000
        outcomes == [m.situation_outcomes EXCEPT
                        ![situation_key] = Append(@, actual_reward)]
    IN  [valence |-> m.valence + valence_change,
         arousal |-> (arousal1 * ArousalDecay) \div 1000,
         expected_reward |-> _predict_reward(outcomes[situation_key]),
         situation_outcomes |-> outcomes]

\* process_experience: arousal rises with the size of the prediction error and
\* then decays, valence follows the signed error and is clipped
process_experience(m, situation_key, actual_reward) ==
    LET prediction_error == actual_reward - m.expected_reward
        arousal_change == (Abs(prediction_error) * FastLearning) \div 1000
        arousal1 == Min(1000, m.arousal + arousal_change)
        valence_change == (prediction_error * SlowLearning) \div 1000
        outcomes == [m.situation_outcomes EXCEPT
                        ![situation_key] = Append(@, actual_reward)]
    IN  [valence |-> Clip(m.valence + valence_change),
         arousal |-> (arousal1 * ArousalDecay) \div 1000,
         expected_reward |-> _predict_reward(outcomes[situation_key]),
         situation_outcomes |-> outcomes]

\* ------------------------------------------- EnhancedBrain (one object)
\* the fields EnhancedBrain.__init__ assigns, from a CreatureConfig or from
\* the defaults of its else branch
BrainFields(c) ==
    [health |-> c.starting_health, energy |-> c.starting_energy,
     action_tokens |-> c.initial_action_tokens,
     max_tokens |-> c.max_action_tokens,
     energy_cost_per_step |-> c.energy_cost_per_step,
     health_decay_rate |-> c.health_decay_rate,
     perception_memory |-> <<>>]

\* the else branch of EnhancedBrain.__init__
DefaultBrain ==
    [starting_health |-> 1000, starting_energy |-> 1000,
     initial_action_tokens |-> DefaultTokens, max_action_tokens |-> DefaultMaxTokens,
     energy_cost_per_step |-> 10, health_decay_rate |-> 1]

\* CreatureConfig objects: token settings are not validated by __post_init__,
\* and starting health and energy only have to be positive
CreatureConfigs ==
    { DefaultBrain,
      [DefaultBrain EXCEPT !.max_action_tokens = 12],
      [DefaultBrain EXCEPT !.max_action_tokens = 5],
      [DefaultBrain EXCEPT !.starting_health = 1500, !.starting_energy = 1200] }

\* int(surprise * 10) for a change of the food count alone, as the double
\* arithmetic of (change * 0.3) / 3.0 * 10 comes out
SurpriseTenths(food_change) ==
    IF food_change = 0 THEN 0
    ELSE IF food_change >= 10 THEN 10
    ELSE <<0, 1, 3, 3, 5, 6, 7, 7, 9>>[food_change]

\* a perception memory that is never trimmed
_calculate_perceptual_surprise_keeps_all(memory, seen_food) ==
    IF memory = <<>>
    THEN [tenths |-> 5, surprise |-> 500, memory |-> <<seen_food>>]
    ELSE LET food_change == Abs(seen_food - memory[Len(memory)])
         IN  [tenths |-> SurpriseTenths(food_change),
              surprise |-> Min(1000, food_change * 100),
              memory |-> Append(memory, seen_food)]

\* _calculate_perceptual_surprise: 0.5 for the first perception, else the
\* weighted change against the last stored perception; the perception is
\* stored and the oldest one dropped beyond max_memory
_calculate_perceptual_surprise(memory, seen_food) ==
    IF memory = <<>>
    THEN [tenths |-> 5, surprise |-> 500, memory |-> <<seen_food>>]
    ELSE LET food_change == Abs(seen_food - memory[Len(memory)])
             appended == Append(memory, seen_food)
         IN  [tenths |-> SurpriseTenths(food_change),
              surprise |-> Min(1000, food_change * 100),
              memory |-> IF Len(appended) > MaxMemory THEN Tail(appended)
                         ELSE appended]

\* _calculate_total_reward: half the surprise, the survival reward of the
\* effect, and the social reward for up to three creatures nearby
_calculate_total_reward(surprise, outcome) ==
    surprise \div 2
    + (IF outcome.effect = "found_food" THEN 1000
       ELSE IF outcome.effect = "made_sound" /\ outcome.creatures_responded > 0
            THEN 300 * outcome.creatures_responded
       ELSE IF outcome.effect = "collision" THEN -200
       ELSE 0)
    + (IF outcome.near_creatures > 0 THEN 100 * Min(3, outcome.near_creatures) ELSE 0)

\* EnhancedBrain.process_timestep on the brain b with its mood system m
brain_process_timestep(b, m, seen_food, outcome) ==
    LET s == _calculate_perceptual_surprise(b.perception_memory, seen_food)
        reward == _calculate_total_reward(s.surprise, outcome)
        tokens_gained == s.tenths
        res == process_timestep(b.health, b.energy, outcome.effect,
                                b.energy_cost_per_step, b.health_decay_rate)
    IN  [brain |-> [b EXCEPT !.perception_memory = s.memory,
                             !.action_tokens = Min(b.max_tokens, b.action_tokens + tokens_gained),
                             !.health = res.health,
                             !.energy = res.energy],
         mood |-> process_experience(m, _hash_situation(seen_food), reward),
         tokens_gained |-> tokens_gained]

\* ---------------------------------------- MoodInfluencedActionSelector
\* what the oracle can answer: nothing (absent answer, failure, timeout), a
\* vocabulary action, a synonym, or text that is no action
OracleResponses == {"", "eat", "rest", "dance"}

\* the synonyms table of _llm_action_selection
Synonym(text) ==
    IF text \in {"rest", "wait"} THEN "stay"
    ELSE IF text = "listen carefully" THEN "listen"
    ELSE IF text = "sing low" THEN "make_sound_low"
    ELSE IF text = "sing high" THEN "make_sound_high"
    ELSE text

\* _llm_action_selection: json.dumps of the perception summary raises
\* TypeError when seen_food is a numpy integer (as np.sum returns it);
\* a recognised answer costs three tokens
_llm_action_selection(b, numpy_counts, response) ==
    IF numpy_counts
    THEN [raised |-> TRUE, suggestion |-> "", action_tokens |-> b.action_tokens]
    ELSE IF response # "" /\ Synonym(response) \in base_actions
    THEN [raised |-> FALSE, suggestion |-> Synonym(response),
          action_tokens |-> Max(0, b.action_tokens - TokenCost)]
    ELSE [raised |-> FALSE, suggestion |-> "", action_tokens |-> b.action_tokens]

\* select_action: the oracle is asked when it is configured, the brain has
\* more than five tokens and the 0.2 draw hits; otherwise, or without a
\* suggestion, the action is sampled
select_action(b, use_llm, draw_hit, numpy_counts, response, sampled) ==
    IF use_llm /\ b.action_tokens > TokenThreshold /\ draw_hit
    THEN LET r == _llm_action_selection(b, numpy_counts, response)
         IN  IF r.raised
             THEN [raised |-> TRUE, action |-> "", action_tokens |-> r.action_tokens,
                   consulted |-> TRUE]
             ELSE [raised |-> FALSE,
                   action |-> IF r.suggestion # "" THEN r.suggestion ELSE sampled,
                   action_tokens |-> r.action_tokens, consulted |-> TRUE]
    ELSE [raised |-> FALSE, action |-> sampled, action_tokens |-> b.action_tokens,
          consulted |-> FALSE]

\* --------------------------------------- calls made on one brain directly
\* EnhancedBrain.__init__: the fields are assigned, then the mood system is
\* built with EmergentMoodSystem(config=mood_config); EmergentMoodSystem.__init__
\* takes no argument besides self, so the call raises TypeError and no brain
\* is returned, with or without configuration objects
EnhancedBrain(creature_config, with_config) ==
    [raised |-> TRUE, error |-> "TypeError",
     assigned |-> BrainFields(IF with_config THEN creature_config ELSE DefaultBrain)]

\* rewards of direct process_experience calls, in thousandths
Rewards == {-150000, 0, 1000, 150000}

\* food counts of the perceptions handed to a brain
FoodCounts == {0, 2, 10}

\* outcomes handed to process_timestep
Outcomes ==
    { [effect |-> "none", creatures_responded |-> 0, near_creatures |-> 0],
      [effect |-> "found_food", creatures_responded |-> 0, near_creatures |-> 0],
      [effect |-> "collision", creatures_responded |-> 0, near_creatures |-> 1],
      [effect |-> "made_sound", creatures_responded |-> 1, near_creatures |-> 1] }

\* the food count of the n-th perception of a creature that walks in and out
\* of sight of two Food cells
SeenAt(n) == IF n % 2 = 1 THEN 0 ELSE 2

\* a brain and its mood system after n process_timestep calls without any
\* effect, starting from the fields __init__ assigns
RECURSIVE Aged(_)
Aged(n) ==
    IF n = 0
    THEN [brain |-> BrainFields(DefaultBrain), mood |-> EmergentMoodSystem]
    ELSE LET before == Aged(n - 1)
             r == brain_process_timestep(before.brain, before.mood, SeenAt(n),
                      [effect |-> "none", creatures_responded |-> 0,
                       near_creatures |-> 0])
         IN  [brain |-> r.brain, mood |-> r.mood]

\* the brains calls are made on: new ones, and one that has lived for one
\* step less than its perception memory holds
BrainStarts ==
    {[brain |-> BrainFields(c), mood |-> EmergentMoodSystem] : c \in CreatureConfigs}
    \cup {Aged(MaxMemory - 1)}

\* a world that no call of this part touches
WorldAtRest ==
    /\ cfg = CHOOSE c \in Configs : c.routine = "engine" /\ ~c.use_llm
    /\ grid = [c \in Cells |-> EMPTY]
    /\ sound_grid = [c \in Cells |-> <<0, 0>>]
    /\ creature_positions = [i \in Creatures |-> NoPos]
    /\ position = [i \in Creatures |-> <<0, 0>>]
    /\ alive = [i \in Creatures |-> TRUE]
    /\ health = [i \in Creatures |-> cfg.starting_health]
    /\ energy = [i \in Creatures |-> cfg.starting_energy]
    /\ step_count = 0
    /\ idx = 0
    /\ ticks = 0
    /\ ops = 0
    /\ events = <<>>
    /\ lastEv = NoEvent

\* a brain with the fields __init__ assigns and the mood system
\* EmergentMoodSystem() builds, or the pair some steps later
BrainInit ==
    /\ WorldAtRest
    /\ \E start \in BrainStarts : brain = start.brain /\ mood = start.mood
    /\ run = NoRun
    /\ ret = [op |-> "none", seq |-> 0]

CallEnhancedBrain ==
    /\ ret.seq < MaxBrainCalls
    /\ \E with_config \in BOOLEAN :
       \E creature_config \in (IF with_config THEN CreatureConfigs ELSE {DefaultBrain}) :
         LET r == EnhancedBrain(creature_config, with_config)
         IN  ret' = [op |-> "EnhancedBrain", seq |-> ret.seq + 1,
                     raised |-> r.raised, with_config |-> with_config,
                     assigned |-> r.assigned]
    /\ UNCHANGED <<brain, mood, run>>
    /\ UNCHANGED world

CallProcessExperience ==
    /\ ret.seq < MaxBrainCalls
    /\ \E situation_key \in SituationKeys, actual_reward \in Rewards :
         /\ mood' = process_experience(mood, situation_key, actual_reward)
         /\ ret' = [op |-> "process_experience", seq |-> ret.seq + 1,
                    actual_reward |-> actual_reward]
    /\ UNCHANGED <<brain, run>>
    /\ UNCHANGED world

CallProcessTimestep ==
    /\ ret.seq < MaxBrainCalls
    /\ \E seen_food \in FoodCounts, outcome \in Outcomes :
         LET r == brain_process_timestep(brain, mood, seen_food, outcome)
         IN  /\ brain' = r.brain
             /\ mood' = r.mood
             /\ ret' = [op |-> "process_timestep", seq |-> ret.seq + 1,
                        effect |-> outcome.effect,
                        tokens_gained |-> r.tokens_gained]
    /\ UNCHANGED run
    /\ UNCHANGED world

CallSelectAction ==
    /\ ret.seq < MaxBrainCalls
    /\ \E use_llm \in BOOLEAN, draw_hit \in BOOLEAN, sampled \in base_actions :
       \E numpy_counts \in (IF use_llm /\ draw_hit THEN BOOLEAN ELSE {FALSE}),
          response \in (IF use_llm /\ draw_hit THEN OracleResponses ELSE {""}) :
         LET r == select_action(brain, use_llm, draw_hit, numpy_counts, response, sampled)
         IN  /\ brain' = [brain EXCEPT !.action_tokens = r.action_tokens]
             /\ ret' = [op |-> "select_action", seq |-> ret.seq + 1,
                        raised |-> r.raised, action |-> r.action,
                        consulted |-> r.consulted, response |-> response,
                        sampled |-> sampled,
                        tokens_before |-> brain.action_tokens]
    /\ UNCHANGED <<mood, run>>
    /\ UNCHANGED world

BrainNext ==
    \/ CallEnhancedBrain
    \/ CallProcessExperience
    \/ CallProcessTimestep
    \/ CallSelectAction

BrainSpec == BrainInit /\ [][BrainNext]_vars

\* ------------------------------- calls made on a world and its world model
\* a world of ApiWidth x ApiHeight cells
ApiConfig ==
    [(CHOOSE c \in Configs : c.routine = "engine" /\ ~c.use_llm)
        EXCEPT !.width = ApiWidth, !.height = ApiHeight]

\* cell grids: a Food cell next to an Obstacle; a Food column and an Obstacle row
ApiGrids ==
    { [c \in Cells |-> IF c = <<1, 1>> THEN FOOD
                       ELSE IF c = <<2, 1>> THEN OBSTACLE ELSE EMPTY],
      [c \in Cells |-> IF c[1] = 0 THEN FOOD
                       ELSE IF c[2] = 0 THEN OBSTACLE ELSE EMPTY] }

\* sound fields: silent; a loud cell and a cell at half the emitted amplitude
ApiSounds ==
    { [c \in Cells |-> <<0, 0>>],
      [c \in Cells |-> IF c = <<0, 0>> THEN <<HighFrequency, 900>>
                       ELSE IF c = <<1, 1>> THEN <<HighFrequency, 400>>
                       ELSE <<0, 0>>] }

\* position tables: empty; two creatures registered
ApiTables ==
    { [i \in Creatures |-> NoPos],
      [i \in Creatures |-> IF i = 1 THEN <<0, 1>>
                           ELSE IF i = NumCreatures THEN <<1, 0>> ELSE NoPos] }

\* positions handed to the calls: every cell, and positions outside the world
ApiPositions ==
    Cells \cup { <<-1, 0>>, <<cfg.width, 1>>, <<1, -1>>, <<1, cfg.height>>,
                 <<-2, cfg.height + 2>> }

\* action identifiers handed to propose_action: the vocabulary and one outside it
ApiActions == VALID_ACTIONS \cup {"fly"}

\* amplitudes handed to update_sound, in thousandths
ApiAmplitudes == {1000, SoundAmplitude, 300}

\* radii handed to get_local_view
Radii == 0..MaxRadius

ApiInit ==
    /\ cfg = ApiConfig
    /\ grid \in ApiGrids
    /\ sound_grid \in ApiSounds
    /\ creature_positions \in ApiTables
    /\ position = [i \in Creatures |->
                     IF creature_positions[i] # NoPos THEN creature_positions[i]
                     ELSE <<1, 1>>]
    /\ alive = [i \in Creatures |-> TRUE]
    /\ health = [i \in Creatures |-> cfg.starting_health]
    /\ energy = [i \in Creatures |-> cfg.starting_energy]
    /\ step_count = 0
    /\ idx = 0
    /\ ticks = 0
    /\ ops = 0
    /\ events = <<>>
    /\ lastEv = NoEvent
    /\ brain = NoBrain
    /\ mood = NoMood
    /\ run = NoRun
    /\ ret = [op |-> "none", seq |-> 0]

\* world_model.propose_action(id, action, current_pos), and the caller
\* storing the returned new_position in the roster
CallProposeAction ==
    /\ ret.seq < MaxApiCalls
    /\ \E id \in {1, 2}, action \in ApiActions, current_pos \in ApiPositions,
          accepted \in BOOLEAN :
       \E direction \in (IF accepted /\ action = "explore" THEN Directions ELSE {"north"}) :
         LET outcome == propose_action(grid, sound_grid, creature_positions, id,
                                       action, direction, current_pos, accepted)
         IN  /\ grid' = outcome.grid
             /\ sound_grid' = outcome.sound_grid
             /\ creature_positions' = outcome.table
             /\ position' = [position EXCEPT ![id] = outcome.new_position]
             /\ ret' = [op |-> "propose_action", seq |-> ret.seq + 1,
                        creature_id |-> id, action |-> action,
                        current_pos |-> current_pos,
                        accepted |-> outcome.accepted,
                        new_position |-> outcome.new_position,
                        effect |-> outcome.effect]
    /\ UNCHANGED <<alive, health, energy, cfg, step_count, idx, ticks, ops,
                   events, lastEv, brain, mood, run>>

\* world.update_sound(x, y, frequency, amplitude)
CallUpdateSound ==
    /\ ret.seq < MaxApiCalls
    /\ \E pos \in ApiPositions, frequency \in {LowFrequency, HighFrequency},
          amplitude \in ApiAmplitudes :
         /\ sound_grid' = update_sound(sound_grid, pos[1], pos[2], frequency, amplitude)
         /\ ret' = [op |-> "update_sound", seq |-> ret.seq + 1,
                    x |-> pos[1], y |-> pos[2],
                    frequency |-> frequency, amplitude |-> amplitude]
    /\ UNCHANGED <<grid, creature_positions, position, alive, health, energy,
                   cfg, step_count, idx, ticks, ops, events, lastEv,
                   brain, mood, run>>

\* world.get_local_view(x, y, radius) for an in-bounds cell
CallGetLocalView ==
    /\ ret.seq < MaxApiCalls
    /\ \E pos \in Cells, radius \in Radii :
         LET view == get_local_view(grid, pos[1], pos[2], radius)
         IN  ret' = [op |-> "get_local_view", seq |-> ret.seq + 1,
                     x |-> pos[1], y |-> pos[2], radius |-> radius,
                     visual |-> view.visual,
                     food_count |-> view.food_count,
                     obstacle_count |-> view.obstacle_count]
    /\ UNCHANGED <<brain, mood, run>>
    /\ UNCHANGED world

ApiNext ==
    \/ CallProposeAction
    \/ CallUpdateSound
    \/ CallGetLocalView

ApiSpec == ApiInit /\ [][ApiNext]_vars

\* ------------------------------------------------- the run loops, whole runs
\* run_simulation and SimulationOrchestrator.run drive the step routines;
\* ticks counts the steps the loop has entered
AllDead == \A c \in Creatures : ~alive[c]

\* the loop condition: `while self.step_count < self.max_steps` in
\* run_simulation, `for step in range(self.max_steps)` in run
LoopContinues ==
    IF cfg.routine = "main_loop" THEN step_count < run.max_steps
    ELSE ticks < run.max_steps

\* the `break` at the end of the loop body, when no creature is alive
BrokeOnAllDead == ticks > 0 /\ AllDead

\* a run object after construction, on a fresh world, about to enter its loop
RunInit ==
    /\ cfg \in Configs
    /\ grid \in InitGrids
    /\ sound_grid = [c \in Cells |-> <<0, 0>>]
    /\ creature_positions = [i \in Creatures |-> NoPos]
    /\ position \in [Creatures -> StartCells]
    /\ alive = [i \in Creatures |-> TRUE]
    /\ health = [i \in Creatures |-> cfg.starting_health]
    /\ energy = [i \in Creatures |-> cfg.starting_energy]
    /\ step_count = 0
    /\ idx = 0
    /\ ticks = 0
    /\ ops = 0
    /\ events = <<>>
    /\ lastEv = NoEvent
    /\ brain = NoBrain
    /\ mood = NoMood
    /\ run \in {[state |-> "running", max_steps |-> m] : m \in 0..MaxTicks}
    /\ ret = NoCall

\* a loop that tests only the step budget before the next step
RunStartStepNoBreak ==
    /\ run.state = "running"
    /\ lastEv.type # "raised"
    /\ LoopContinues
    /\ StartStep

\* the loop enters its next step
RunStartStep ==
    /\ run.state = "running"
    /\ lastEv.type # "raised"
    /\ LoopContinues
    /\ ~BrokeOnAllDead
    /\ StartStep

\* an exception that left simulation_step leaves run_simulation as well
RunAbort ==
    /\ run.state = "running"
    /\ lastEv.type = "raised"
    /\ run' = [run EXCEPT !.state = "raised"]
    /\ UNCHANGED <<brain, mood, ret>>
    /\ UNCHANGED world

\* the loop is left, by its condition or by the break, and the code after
\* it runs: run returns its summary; run_simulation logs
\* simulation_duration/self.step_count, which raises when no step was counted
RunReturn ==
    /\ run.state = "running"
    /\ idx = 0
    /\ lastEv.type # "raised"
    /\ (~LoopContinues \/ BrokeOnAllDead)
    /\ run' = [run EXCEPT !.state =
                  IF cfg.routine = "main_loop" /\ step_count = 0
                  THEN "raised" ELSE "returned"]
    /\ UNCHANGED <<brain, mood, ret>>
    /\ UNCHANGED world

RunNext ==
    \/ RunStartStep
    \/ SkipDead
    \/ ProcessCreature
    \/ SelectRaisesEngine
    \/ SelectRaisesMainLoop
    \/ FinishStep
    \/ RunAbort
    \/ RunReturn

RunSpec == RunInit /\ [][RunNext]_vars

\* ------------------------------------- a roster placed on pairwise distinct cells
\* rosters handed to add_creatures, one creature per position along the row:
\* every creature on a cell of the world, or the row shifted east so that
\* its last creature is beyond the east edge
PlacedRosters ==
    { [i \in Creatures |-> <<i - 1 + shift, 0>>] : shift \in {0, 1} }

\* a world without obstacles, Food on the middle cell
PlacedGrids == { [c \in Cells |-> IF c = <<1, 0>> THEN FOOD ELSE EMPTY] }

\* as Init, with every creature of the roster on a position of its own
PlacedInit ==
    /\ cfg \in Configs
    /\ grid \in PlacedGrids
    /\ sound_grid = [c \in Cells |-> <<0, 0>>]
    /\ creature_positions = [i \in Creatures |-> NoPos]
    /\ position \in PlacedRosters
    /\ alive = [i \in Creatures |-> TRUE]
    /\ health = [i \in Creatures |-> cfg.starting_health]
    /\ energy = [i \in Creatures |-> cfg.starting_energy]
    /\ step_count = 0
    /\ idx = 0
    /\ ticks = 0
    /\ ops = 0
    /\ events = <<>>
    /\ lastEv = NoEvent
    /\ brain = NoBrain
    /\ mood = NoMood
    /\ run = NoRun
    /\ ret = NoCall

PlacedSpec == PlacedInit /\ [][Next]_vars

\* --------------------------------- the two step routines, run side by side
\* what a step routine reads and writes: the world, the position table, the
\* roster with its brains' resources, and the step counter
WorldOf(g, s, table, pos, al, h, e, count) ==
    [grid |-> g, sound_grid |-> s, creature_positions |-> table,
     position |-> pos, alive |-> al, health |-> h, energy |-> e,
     step_count |-> count]

\* SimulationEngine.step, the loop body for creature id, when nothing raises
step_creature(w, id, action, direction, accepted) ==
    IF ~w.alive[id] THEN w
    ELSE LET outcome == propose_action(w.grid, w.sound_grid, w.creature_positions,
                                       id, action, direction, w.position[id], accepted)
             brain_update == process_timestep(w.health[id], w.energy[id], outcome.effect,
                                              cfg.energy_cost_per_step, cfg.health_decay_rate)
         IN  [w EXCEPT !.grid = outcome.grid,
                       !.sound_grid = outcome.sound_grid,
                       !.creature_positions = outcome.table,
                       !.position[id] = outcome.new_position,
                       !.health[id] = brain_update.health,
                       !.energy[id] = brain_update.energy,
                       !.alive[id] = ~(brain_update.health <= 0)]

\* SimulationEngine.step after the loop: world.step() and the counter
step_end(w, respawn, samples) ==
    [w EXCEPT !.grid = IF respawn THEN _spawn_food(w.grid, samples) ELSE w.grid,
              !.sound_grid = DecaySound(w.sound_grid),
              !.step_count = @ + 1]

\* EmergentLifeSimulation.simulation_step, the loop body for creature id
simulation_step_creature(w, id, action, direction, accepted) ==
    IF ~w.alive[id] THEN w
    ELSE LET outcome == propose_action(w.grid, w.sound_grid, w.creature_positions,
                                       id, action, direction, w.position[id], accepted)
             position1 == [w.position EXCEPT ![id] = outcome.new_position]
             brain_update == process_timestep(w.health[id], w.energy[id], outcome.effect,
                                              cfg.energy_cost_per_step, cfg.health_decay_rate)
             died == brain_update.health <= 0
         IN  [grid |-> outcome.grid,
              sound_grid |-> outcome.sound_grid,
              creature_positions |-> outcome.table,
              position |-> position1,
              alive |-> [w.alive EXCEPT ![id] = IF died THEN FALSE ELSE @],
              health |-> [w.health EXCEPT ![id] = brain_update.health],
              energy |-> [w.energy EXCEPT ![id] = brain_update.energy],
              step_count |-> w.step_count]

\* a simulation_step that ends without world.step()
simulation_step_end_skips_world(w, respawn, samples) ==
    [w EXCEPT !.step_count = @ + 1]

\* EmergentLifeSimulation.simulation_step after the loop
simulation_step_end(w, respawn, samples) ==
    LET grid1 == IF respawn THEN _spawn_food(w.grid, samples) ELSE w.grid
    IN  [w EXCEPT !.grid = grid1,
                  !.sound_grid = DecaySound(w.sound_grid),
                  !.step_count = w.step_count + 1]

\* the engine's copy is held in the world variables
EngineWorld ==
    WorldOf(grid, sound_grid, creature_positions, position, alive, health,
            energy, step_count)

\* both routines start from the same roster, world, table and counter; ret
\* holds what simulation_step has left so far
TwinInit ==
    /\ cfg \in Configs
    /\ grid \in InitGrids
    /\ sound_grid = [c \in Cells |-> <<0, 0>>]
    /\ creature_positions = [i \in Creatures |-> NoPos]
    /\ position \in [Creatures -> StartCells]
    /\ alive = [i \in Creatures |-> TRUE]
    /\ health = [i \in Creatures |-> cfg.starting_health]
    /\ energy = [i \in Creatures |-> cfg.starting_energy]
    /\ step_count = 0
    /\ idx = 0
    /\ ticks = 0
    /\ ops = 0
    /\ events = <<>>
    /\ lastEv = NoEvent
    /\ brain = NoBrain
    /\ mood = NoMood
    /\ run = NoRun
    /\ ret = [op |-> "simulation_step", world |-> EngineWorld]

\* both routines are entered
TwinStart == StartStep

\* both loops are at the same roster entry and take the same draws; a
\* routine whose copy of the creature is not alive passes it over
TwinCreature ==
    /\ idx \in Creatures
    /\ (alive[idx] \/ ret.world.alive[idx]) => ops < MaxOps
    /\ ops' = IF alive[idx] \/ ret.world.alive[idx] THEN ops + 1 ELSE ops
    /\ \E accepted \in BOOLEAN, action \in base_actions :
       \E direction \in (IF accepted /\ action = "explore" THEN Directions ELSE {"north"}) :
         \E w \in {step_creature(EngineWorld, idx, action, direction, accepted)} :
             /\ grid' = w.grid
             /\ sound_grid' = w.sound_grid
             /\ creature_positions' = w.creature_positions
             /\ position' = w.position
             /\ alive' = w.alive
             /\ health' = w.health
             /\ energy' = w.energy
             /\ ret' = [ret EXCEPT !.world =
                           simulation_step_creature(ret.world, idx, action,
                                                    direction, accepted)]
             /\ lastEv' = [NoEvent EXCEPT !.type = "twin", !.creature_id = idx,
                                          !.action = action, !.accepted = accepted]
    /\ idx' = idx + 1
    /\ UNCHANGED <<cfg, step_count, ticks, events, brain, mood, run>>

\* both routines finish the step with the same draws of world.step()
TwinFinish ==
    /\ idx = NumCreatures + 1
    /\ \E respawn \in RespawnDraws(cfg.food_respawn_probability) :
       \E samples \in [1..food_count(cfg.food_respawn_amount) -> Cells] :
         \E w \in {step_end(EngineWorld, respawn, samples)} :
             /\ grid' = w.grid
             /\ sound_grid' = w.sound_grid
             /\ step_count' = w.step_count
             /\ ret' = [ret EXCEPT !.world = simulation_step_end(ret.world, respawn, samples)]
    /\ idx' = 0
    /\ lastEv' = [NoEvent EXCEPT !.type = "performance"]
    /\ UNCHANGED <<creature_positions, position, alive, health, energy, cfg,
                   ticks, ops, events, brain, mood, run>>

TwinNext ==
    \/ TwinStart
    \/ TwinCreature
    \/ TwinFinish

TwinSpec == TwinInit /\ [][TwinNext]_vars

\* ------------------------------------------- runs in which the food runs out
\* the most outcomes with effect "found_food" a run hands out, and a step
\* budget that outlasts every roster
MaxMeals == 2
StarveSteps == 16

\* configurations with a positive per-step energy cost and a positive health
\* decay, large enough for a creature to starve within the step budget even
\* after its meals
StarveConfigs ==
    { [starting_health |-> h, starting_energy |-> 1000,
       energy_cost_per_step |-> 400, health_decay_rate |-> d,
       food_respawn_probability |-> 0, food_respawn_amount |-> 5,
       routine |-> "engine", use_llm |-> FALSE,
       width |-> Width, height |-> Height] : h \in {1, 1000}, d \in {250, 500} }

\* the effects propose_action can report
Effects == {"none", "collision", "made_sound", "action_blocked", "found_food"}

StarveInit ==
    /\ cfg \in StarveConfigs
    /\ grid \in InitGrids
    /\ sound_grid = [c \in Cells |-> <<0, 0>>]
    /\ creature_positions = [i \in Creatures |-> NoPos]
    /\ position \in [Creatures -> StartCells]
    /\ alive = [i \in Creatures |-> TRUE]
    /\ health = [i \in Creatures |-> cfg.starting_health]
    /\ energy = [i \in Creatures |-> cfg.starting_energy]
    /\ step_count = 0
    /\ idx = 0
    /\ ticks = 0
    /\ ops = 0
    /\ events = <<>>
    /\ lastEv = NoEvent
    /\ brain = NoBrain
    /\ mood = NoMood
    /\ run = [state |-> "running", max_steps |-> StarveSteps, meals |-> 0]
    /\ ret = NoCall

\* the run loop enters a step: steps are left, and the loop has not broken
\* on an all-dead roster
StarveStart ==
    /\ run.state = "running"
    /\ idx = 0
    /\ ticks < run.max_steps
    /\ ~BrokeOnAllDead
    /\ idx' = 1
    /\ ticks' = ticks + 1
    /\ lastEv' = [NoEvent EXCEPT !.type = "start"]
    /\ UNCHANGED <<grid, sound_grid, creature_positions, position, alive,
                   health, energy, cfg, step_count, ops, events>>
    /\ UNCHANGED aux

\* the loop body, with the world's answer reduced to its effect: a creature
\* that is not alive is passed over, a live one goes through process_timestep
\* and the death check
StarveCreature ==
    /\ idx \in Creatures
    /\ idx' = idx + 1
    /\ IF ~alive[idx]
       THEN /\ lastEv' = [NoEvent EXCEPT !.type = "skip", !.creature_id = idx]
            /\ UNCHANGED <<health, energy, alive, run>>
       ELSE \E effect \in Effects :
              /\ effect = "found_food" => run.meals < MaxMeals
              /\ LET brain_update == process_timestep(health[idx], energy[idx], effect,
                                         cfg.energy_cost_per_step, cfg.health_decay_rate)
                 IN  /\ health' = [health EXCEPT ![idx] = brain_update.health]
                     /\ energy' = [energy EXCEPT ![idx] = brain_update.energy]
                     /\ alive' = [alive EXCEPT ![idx] = ~IsDead(brain_update.health)]
              /\ run' = [run EXCEPT !.meals = IF effect = "found_food" THEN @ + 1 ELSE @]
              /\ lastEv' = [NoEvent EXCEPT !.type = "action", !.creature_id = idx,
                                           !.effect = effect]
    /\ UNCHANGED <<grid, sound_grid, creature_positions, position, cfg,
                   step_count, ticks, ops, events, brain, mood, ret>>

\* the end of the step: the counter
StarveFinish ==
    /\ idx = NumCreatures + 1
    /\ idx' = 0
    /\ step_count' = step_count + 1
    /\ lastEv' = [NoEvent EXCEPT !.type = "performance"]
    /\ UNCHANGED <<grid, sound_grid, creature_positions, position, alive,
                   health, energy, cfg, ticks, ops, events>>
    /\ UNCHANGED aux

\* the loop is left
StarveReturn ==
    /\ run.state = "running"
    /\ idx = 0
    /\ (ticks >= run.max_steps \/ BrokeOnAllDead)
    /\ run' = [run EXCEPT !.state = "returned"]
    /\ UNCHANGED <<brain, mood, ret>>
    /\ UNCHANGED world

StarveNext ==
    \/ StarveStart
    \/ StarveCreature
    \/ StarveFinish
    \/ StarveReturn

\* the run loop keeps executing steps
StarveSpec == StarveInit /\ [][StarveNext]_vars /\ WF_vars(StarveNext)

\* ------------------------------------------------------- the web server
\* the /start requests of a session and the max_steps they ask for
MaxStarts == 2
MaxWebSteps == 2

\* a /start request and the run_loop task it creates carry the same number
Starts == 1..MaxStarts

\* SimulationState() and the tasks of the event loop, held in run: no
\* simulation, not running, not paused; no request handled, no loop created.
\* latest and stop_requested record the most recent /start and whether a stop
\* was asked for since; last is what the event loop ran last
WebState ==
    [sim |-> 0, running |-> FALSE, paused |-> FALSE,
     step_count |-> [g \in Starts |-> 0],
     handler |-> [g \in Starts |-> "none"],
     loop |-> [g \in Starts |-> [pc |-> "none", sim |-> 0]],
     latest |-> 0, stop_requested |-> FALSE,
     last |-> [op |-> "none", task |-> 0]]

WebInit ==
    /\ WorldAtRest
    /\ brain = NoBrain
    /\ mood = NoMood
    /\ ret = NoCall
    /\ run = WebState

\* start_sim from the construction of the simulation to its return: a new
\* simulation, paused cleared, asyncio.create_task(run_loop())
StartBody(r, g) ==
    [r EXCEPT !.sim = g,
              !.paused = FALSE,
              !.handler[g] = "done",
              !.loop[g] = [pc |-> "created", sim |-> 0],
              !.latest = g,
              !.stop_requested = FALSE,
              !.last = [op |-> "start_sim", task |-> g]]

\* start_sim is entered: with a loop running it clears the flag and awaits
\* asyncio.sleep(0.1), otherwise it goes on at once
start_sim ==
    /\ \E g \in Starts :
         /\ run.handler[g] = "none"
         /\ \A h \in Starts : h < g => run.handler[h] # "none"
         /\ run' = IF run.running
                   THEN [run EXCEPT !.running = FALSE,
                                    !.handler[g] = "sleeping",
                                    !.last = [op |-> "start_sim_sleep", task |-> g]]
                   ELSE StartBody(run, g)
    /\ UNCHANGED <<brain, mood, ret>>
    /\ UNCHANGED world

\* start_sim after its sleep
start_sim_resume ==
    /\ \E g \in Starts :
         /\ run.handler[g] = "sleeping"
         /\ run' = StartBody(run, g)
    /\ UNCHANGED <<brain, mood, ret>>
    /\ UNCHANGED world

\* a created run_loop task runs for the first time: it takes state.sim as it
\* is now and sets state.running
run_loop_enter ==
    /\ \E g \in Starts :
         /\ run.loop[g].pc = "created"
         /\ run' = [run EXCEPT !.loop[g] = [pc |-> "awaiting", sim |-> run.sim],
                               !.running = TRUE,
                               !.last = [op |-> "run_loop", task |-> g]]
    /\ UNCHANGED <<brain, mood, ret>>
    /\ UNCHANGED world

\* a run_loop task is resumed at its while test (after entering, or from one
\* of its awaits): it leaves the loop and clears state.running, or sleeps
\* because of the pause, or executes a simulation step and then awaits again
\* or breaks because no creature is alive
run_loop ==
    /\ \E g \in Starts :
         LET sim == run.loop[g].sim
         IN  /\ run.loop[g].pc = "awaiting"
             /\ IF ~(run.running /\ run.step_count[sim] < MaxWebSteps)
                THEN run' = [run EXCEPT !.running = FALSE,
                                        !.loop[g].pc = "done",
                                        !.last = [op |-> "run_loop_exit", task |-> g]]
                ELSE IF run.paused
                THEN run' = [run EXCEPT !.last = [op |-> "run_loop_sleep", task |-> g]]
                ELSE \E extinct \in BOOLEAN :
                       run' = [run EXCEPT
                                 !.step_count[sim] = @ + 1,
                                 !.running = IF extinct THEN FALSE ELSE @,
                                 !.loop[g].pc = IF extinct THEN "done" ELSE "awaiting",
                                 !.last = [op |-> "simulation_step", task |-> g]]
    /\ UNCHANGED <<brain, mood, ret>>
    /\ UNCHANGED world

\* POST /pause, and the "pause" command of a websocket client
pause_sim ==
    /\ run' = [run EXCEPT !.paused = ~@, !.last = [op |-> "pause_sim", task |-> 0]]
    /\ UNCHANGED <<brain, mood, ret>>
    /\ UNCHANGED world

\* POST /stop
stop_sim ==
    /\ run' = [run EXCEPT !.running = FALSE, !.paused = FALSE,
                          !.stop_requested = TRUE,
                          !.last = [op |-> "stop_sim", task |-> 0]]
    /\ UNCHANGED <<brain, mood, ret>>
    /\ UNCHANGED world

\* the "stop" command of a websocket client
websocket_endpoint ==
    /\ run' = [run EXCEPT !.running = FALSE,
                          !.stop_requested = TRUE,
                          !.last = [op |-> "websocket_stop", task |-> 0]]
    /\ UNCHANGED <<brain, mood, ret>>
    /\ UNCHANGED world

WebNext ==
    \/ start_sim
    \/ start_sim_resume
    \/ run_loop_enter
    \/ run_loop
    \/ pause_sim
    \/ stop_sim
    \/ websocket_endpoint

WebSpec == WebInit /\ [][WebNext]_vars

\* ------------------------------------------------------------ properties
\* the creature the last event is about resolved an accepted proposal
Executed == lastEv.type = "action" /\ lastEv.accepted

\* an accepted movement that aimed at another cell
IsMove(e) == e.candidate # NoPos /\ e.candidate # e.old_position

\* the other creatures that are alive
OtherLive(i) == {j \in Creatures : j # i /\ alive[j]}

\* C1: death finality. A creature whose health is <= 0 after its cycle is not
\* alive after that cycle; a creature that is not alive is never perceived
\* for, selected for, proposed for or updated again (the loop only passes it
\* over), it stays not alive, and its position, its table entry and its
\* resources never change.
DeathFinality ==
    [][\A i \in Creatures :
         /\ alive'[i] => health'[i] > 0
         /\ ~alive[i] =>
              /\ ~alive'[i]
              /\ position'[i] = position[i]
              /\ creature_positions'[i] = creature_positions[i]
              /\ health'[i] = health[i]
              /\ energy'[i] = energy[i]
              /\ (lastEv' # lastEv /\ lastEv'.creature_id = i) => lastEv'.type = "skip"]_vars

\* a creature that died in the first step is passed over in the second
DeadPassedOver ==
    /\ lastEv.type = "skip"
    /\ ~alive[lastEv.creature_id]
    /\ ticks = 2

\* C2: collision symmetry. When two creatures of one tick both executed a
\* movement aimed at the same cell, the cell is Empty and no third live
\* creature stands on it, exactly one of the two is on the cell and the other
\* kept its position with effect "collision".
CollisionSymmetry ==
    \A k \in 1..Len(events) :
        LET a == events[k]
            b == lastEv
            c == b.candidate
        IN  ( /\ Executed
              /\ a.type = "action"
              /\ a.creature_id # b.creature_id
              /\ IsMove(a) /\ IsMove(b)
              /\ a.candidate = c
              /\ grid[c] = EMPTY
              /\ \A j \in Creatures \ {a.creature_id, b.creature_id} :
                    ~(alive[j] /\ position[j] = c) )
            => \/ /\ position[a.creature_id] = c
                  /\ position[b.creature_id] = b.old_position
                  /\ b.effect = "collision"
               \/ /\ position[b.creature_id] = c
                  /\ position[a.creature_id] = a.old_position
                  /\ a.effect = "collision"

\* C3: an executed movement is cancelled, with effect "collision", exactly
\* when the cell it aims at is an Obstacle or is the table entry of another
\* live creature; otherwise the creature is on that cell afterwards. The
\* entry of a creature that is not alive does not block.
MoveCancelledExactly ==
    (Executed /\ IsMove(lastEv)) =>
        LET i == lastEv.creature_id
            c == lastEv.candidate
            blocked == \/ grid[c] = OBSTACLE
                       \/ \E j \in OtherLive(i) : creature_positions[j] = c
        IN  IF blocked
            THEN position[i] = lastEv.old_position /\ lastEv.effect = "collision"
            ELSE position[i] = c /\ lastEv.effect # "collision"

\* C4: a rejected proposal is a no-op on the world. The returned position is
\* the creature's position, the effect is "action_blocked", and the grid, the
\* sound field and every other creature's table entry are as before.
RejectedIsNoOp ==
    [][(lastEv' # lastEv /\ lastEv'.type = "action" /\ ~lastEv'.accepted) =>
          /\ lastEv'.new_position = position[idx]
          /\ position' = position
          /\ lastEv'.effect = "action_blocked"
          /\ grid' = grid
          /\ sound_grid' = sound_grid
          /\ \A j \in Creatures \ {idx} :
                creature_positions'[j] = creature_positions[j]]_vars

\* a proposal was rejected while the sound field was not silent
RejectedSeen ==
    /\ lastEv.type = "action"
    /\ ~lastEv.accepted
    /\ \E c \in Cells : sound_grid[c][2] > 0

\* every creature that is alive has an entry in the list of the running step
AllLiveHandled ==
    \A i \in Creatures :
        alive[i] => \E k \in 1..Len(events) :
                        /\ events[k].creature_id = i
                        /\ events[k].type \in {"action", "error"}

\* C5 as stated: the step counter starts at 0, never decreases, and a step
\* call of the engine adds exactly 1, after the whole roster and one
\* world.step().
StepCounterMonotonic ==
    [][/\ ticks = 0 => step_count = 0
       /\ step_count' >= step_count
       /\ (cfg.routine = "engine" /\ idx # 0 /\ idx' = 0) =>
             /\ step_count' = step_count + 1
             /\ idx = NumCreatures + 1
             /\ AllLiveHandled
             /\ sound_grid' = [c \in Cells |-> <<(sound_grid[c][1] * 9) \div 10,
                                                 (sound_grid[c][2] * 9) \div 10>>]]_vars

\* C5 as amended: the same, except that reset() puts the counter back to 0.
StepCounterLaw ==
    [][/\ ticks = 0 => step_count = 0
       /\ IF lastEv' # lastEv /\ lastEv'.type = "reset"
          THEN step_count' = 0
          ELSE step_count' \in {step_count, step_count + 1}
       /\ (cfg.routine = "engine" /\ step_count' = step_count + 1) =>
             idx # 0 /\ idx' = 0
       /\ (cfg.routine = "engine" /\ idx # 0 /\ idx' = 0) =>
             /\ step_count' = step_count + 1
             /\ idx = NumCreatures + 1
             /\ AllLiveHandled
             /\ sound_grid' = [c \in Cells |-> <<(sound_grid[c][1] * 9) \div 10,
                                                 (sound_grid[c][2] * 9) \div 10>>]]_vars

\* an engine step was completed after a reset, over a sound field that was
\* not silent
StepAfterReset ==
    /\ cfg.routine = "engine"
    /\ lastEv.type = "performance"
    /\ ticks = 2
    /\ step_count = 1
    /\ \E c \in Cells : sound_grid[c][2] > 0

\* C6: per-creature error isolation. A step call that was entered ends only
\* after the whole roster, with every live creature handled, world.step() run
\* and the counter one higher, whether or not a creature's cycle raised.
ErrorIsolation ==
    [][(idx # 0 /\ idx' = 0) =>
          /\ step_count' = step_count + 1
          /\ idx = NumCreatures + 1
          /\ AllLiveHandled
          /\ sound_grid' = [c \in Cells |-> <<(sound_grid[c][1] * 9) \div 10,
                                              (sound_grid[c][2] * 9) \div 10>>]]_vars

\* C7: an executed make_sound_low / make_sound_high has effect "made_sound",
\* and with another live creature within Manhattan distance 3 of the emitter
\* it reports at least one responder.
SoundResponders ==
    (Executed /\ lastEv.action \in {"make_sound_low", "make_sound_high"}) =>
        /\ lastEv.effect = "made_sound"
        /\ (\E j \in OtherLive(lastEv.creature_id) :
                Manhattan(position[j], lastEv.old_position) <= 3)
           => lastEv.creatures_responded >= 1

\* C8: for an executed action, near_creatures is the number of other live
\* creatures within Manhattan distance 2 of the position the creature holds
\* after the action.
NearCreaturesFinal ==
    Executed =>
        lastEv.near_creatures =
            Cardinality({j \in OtherLive(lastEv.creature_id) :
                           Manhattan(position[j], lastEv.new_position) <= 2})

\* C9 as stated: an executed "eat" on a Food cell empties the cell, has effect
\* "found_food", and leaves the health at min(100, health + 20).
EatHeals ==
    [][( /\ lastEv' # lastEv
         /\ lastEv'.type = "action" /\ lastEv'.accepted
         /\ lastEv'.action = "eat"
         /\ grid[position[idx]] = FOOD ) =>
          /\ grid'[position[idx]] = EMPTY
          /\ lastEv'.effect = "found_food"
          /\ health'[idx] = (IF health[idx] + 200 > 1000 THEN 1000
                             ELSE health[idx] + 200)]_vars

\* C9 as amended: the health is min(100, health + 20), less the configured
\* health decay when the energy that is left after the refill and the
\* per-step cost is <= 0.
EatHealsThenDecays ==
    [][( /\ lastEv' # lastEv
         /\ lastEv'.type = "action" /\ lastEv'.accepted
         /\ lastEv'.action = "eat"
         /\ grid[position[idx]] = FOOD ) =>
          LET healed == IF health[idx] + 200 > 1000 THEN 1000 ELSE health[idx] + 200
              refilled == IF energy[idx] + 300 > 1000 THEN 1000 ELSE energy[idx] + 300
              left == refilled - cfg.energy_cost_per_step
          IN  /\ grid'[position[idx]] = EMPTY
              /\ \A c \in Cells \ {position[idx]} : grid'[c] = grid[c]
              /\ lastEv'.effect = "found_food"
              /\ energy'[idx] = left
              /\ health'[idx] = (IF left <= 0 THEN healed - cfg.health_decay_rate
                                 ELSE healed)]_vars

\* a creature ate the Food it stood on and kept energy
AteFood ==
    /\ Executed
    /\ lastEv.action = "eat"
    /\ lastEv.effect = "found_food"
    /\ grid[lastEv.old_position] = EMPTY
    /\ energy[lastEv.creature_id] > 0

\* C10: the creature_count of the perception handed to the selector and the
\* brain is the number of live creatures inside the creature's perception
\* window (with or without the creature itself).
CreatureCountOverlay ==
    lastEv.type = "action" =>
        LET i == lastEv.creature_id
            window == WindowCells(lastEv.old_position[1], lastEv.old_position[2], 5)
            others == Cardinality({j \in OtherLive(i) : position[j] \in window})
        IN  lastEv.creature_count \in {others, others + 1}

\* C11: resource ranges. After every process_timestep of any creature, its
\* energy is >= 0 and its health is >= 0.
ResourceRanges ==
    \A i \in Creatures : energy[i] >= 0 /\ health[i] >= 0

\* C12: after any process_timestep or select_action call on a brain, its
\* action_tokens are within 0..max_tokens.
TokenRange ==
    ret.op \in {"process_timestep", "select_action"} =>
        0 <= brain.action_tokens /\ brain.action_tokens <= brain.max_tokens

\* C13: mood bounds. After every process_experience call, valence lies in
\* [-1, 1] and arousal lies in [0, 1].
MoodBounds ==
    /\ -1000 <= mood.valence /\ mood.valence <= 1000
    /\ 0 <= mood.arousal /\ mood.arousal <= 1000

\* a reward far above the expectation drove valence to its upper limit and
\* arousal to its ceiling, from which it decayed once
ValenceClipped ==
    /\ ret.op = "process_experience"
    /\ ret.actual_reward = 150000
    /\ mood.valence = 1000
    /\ mood.arousal = 990

\* C16: select_action returns one of the ten vocabulary actions; it spends
\* exactly 3 tokens when the oracle was consulted (more than 5 tokens) and
\* its answer was recognised, and the answer is then the action returned;
\* in every other case no token is spent and the sampled action is returned.
SelectActionContract ==
    ret.op = "select_action" =>
        LET recognised == /\ ret.consulted
                          /\ ret.response # ""
                          /\ Synonym(ret.response) \in base_actions
            spent == ret.tokens_before - brain.action_tokens
        IN  /\ ~ret.raised
            /\ ret.action \in base_actions
            /\ ret.consulted => ret.tokens_before > 5
            /\ IF recognised
               THEN spent = 3 /\ ret.action = Synonym(ret.response)
               ELSE spent = 0 /\ ret.action = ret.sampled

\* C20: constructing a brain, with or without configuration objects,
\* succeeds; without configuration it has health 100, energy 100, 10 action
\* tokens and an empty perception memory.
ConstructionSucceeds ==
    ret.op = "EnhancedBrain" =>
        /\ ~ret.raised
        /\ ~ret.with_config =>
              /\ ret.assigned.health = 1000
              /\ ret.assigned.energy = 1000
              /\ ret.assigned.action_tokens = 10
              /\ ret.assigned.perception_memory = <<>>

\* C14: after a proposal is resolved, the creature's position in the roster
\* and every entry of the position table lie inside the world; the position
\* is at most one cell from the input position brought into the world (no
\* step past an edge, no wrap-around), and an out-of-range input position is
\* replaced by its clamp to the bounds.
PositionsInBounds ==
    ret.op = "propose_action" =>
        LET i == ret.creature_id
            p == ret.current_pos
            clamp == <<IF p[1] < 0 THEN 0
                       ELSE IF p[1] > cfg.width - 1 THEN cfg.width - 1 ELSE p[1],
                       IF p[2] < 0 THEN 0
                       ELSE IF p[2] > cfg.height - 1 THEN cfg.height - 1 ELSE p[2]>>
        IN  /\ position[i] = ret.new_position
            /\ position[i] \in Cells
            /\ \A j \in Creatures :
                  creature_positions[j] # NoPos => creature_positions[j] \in Cells
            /\ creature_positions[i] = position[i]
            /\ Manhattan(position[i], clamp) <= 1
            /\ ~ret.accepted => position[i] = clamp

\* a position left of the world was brought to column 0 and the move went on
\* from there
ClampedThenMoved ==
    /\ ret.op = "propose_action"
    /\ ret.current_pos = <<-1, 0>>
    /\ ret.accepted
    /\ ret.action = "move_south"
    /\ position[ret.creature_id] = <<0, 1>>

\* C15: an accepted proposal whose action identifier is outside the
\* vocabulary behaves exactly as "stay": the position is unchanged, the cell
\* grid and the sound field are unchanged, and the effect is "none".
UnknownActionStays ==
    [][( /\ ret' # ret
         /\ ret'.op = "propose_action"
         /\ ret'.action \notin VALID_ACTIONS
         /\ ret'.accepted ) =>
          /\ ret'.current_pos \in Cells => ret'.new_position = ret'.current_pos
          /\ ret'.effect = "none"
          /\ grid' = grid
          /\ sound_grid' = sound_grid
          /\ \A j \in Creatures \ {ret'.creature_id} :
                creature_positions'[j] = creature_positions[j]]_vars

\* an unknown action was accepted for a creature standing on Food, which is
\* still there
UnknownOnFood ==
    /\ ret.op = "propose_action"
    /\ ret.action = "fly"
    /\ ret.accepted
    /\ ret.current_pos \in Cells
    /\ grid[ret.new_position] = FOOD

\* C17: sound propagation. After update_sound(x, y, f, a) on an in-bounds
\* cell the cell holds (f, a); each of its in-bounds 8 neighbours that was
\* quieter than a/2 holds (f, a/2); a neighbour at a/2 or louder keeps what
\* it held; no other cell changes.
SoundPropagation ==
    [][( /\ ret' # ret
         /\ ret'.op = "update_sound"
         /\ <<ret'.x, ret'.y>> \in Cells ) =>
          LET centre == <<ret'.x, ret'.y>>
              f == ret'.frequency
              a == ret'.amplitude
          IN  \A c \in Cells :
                 IF c = centre THEN sound_grid'[c] = <<f, a>>
                 ELSE IF /\ Abs(c[1] - centre[1]) <= 1
                         /\ Abs(c[2] - centre[2]) <= 1
                         /\ 2 * sound_grid[c][2] < a
                 THEN sound_grid'[c] = <<f, a \div 2>>
                 ELSE sound_grid'[c] = sound_grid[c]]_vars

\* a sound of amplitude 1.0 left 0.5 on a silent neighbour and did not touch
\* a louder one
HalfOnSilentNeighbour ==
    /\ ret.op = "update_sound"
    /\ ret.amplitude = 1000
    /\ ret.x = 1 /\ ret.y = 0
    /\ sound_grid[<<2, 0>>] = <<ret.frequency, 500>>
    /\ sound_grid[<<0, 0>>] = <<HighFrequency, 900>>

RunLoopBounded ==
    [][ /\ (idx = 0 /\ idx' = 1) =>
              (ticks < run.max_steps /\ (ticks = 0 \/ ~AllDead))
        /\ (run.state = "running" /\ run.state' # "running" /\ BrokeOnAllDead) =>
              run.state' = "returned" ]_vars

\* a run with budget left that returned after the step in which the last
\* creature died
StoppedOnAllDead ==
    /\ run.state = "returned"
    /\ AllDead
    /\ ticks > 0
    /\ ticks < run.max_steps

\* C21: within one tick the collision check of a later creature B uses the
\* position an earlier-resolved creature A has after its resolution: an
\* executed movement of B aimed at the cell A is on now is cancelled with
\* effect "collision", and one aimed at the cell A left in this tick is not
\* blocked by A (B ends on it unless an Obstacle or another table entry is
\* there).
RosterOrderResolution ==
    \A k \in 1..Len(events) :
        LET a == events[k]
            A == a.creature_id
            B == lastEv.creature_id
            c == lastEv.candidate
        IN  ( /\ Executed /\ IsMove(lastEv)
              /\ a.type = "action"
              /\ A # B )
            => /\ position[A] = c =>
                    /\ position[B] = lastEv.old_position
                    /\ lastEv.effect = "collision"
               /\ ( /\ a.old_position = c
                    /\ position[A] # c
                    /\ grid[c] # OBSTACLE
                    /\ \A j \in Creatures \ {A, B} : creature_positions[j] # c )
                  => position[B] = c

\* a later creature moved onto the cell an earlier one left in the same tick
MovedIntoVacatedCell ==
    /\ Executed /\ IsMove(lastEv)
    /\ position[lastEv.creature_id] = lastEv.candidate
    /\ \E k \in 1..Len(events) :
          /\ events[k].type = "action"
          /\ events[k].creature_id # lastEv.creature_id
          /\ events[k].old_position = lastEv.candidate
          /\ position[events[k].creature_id] # lastEv.candidate

\* the step from before a creature's cycle to after it, with an action event
Resolved == idx \in Creatures /\ idx' = idx + 1 /\ lastEv'.type = "action"

\* an accepted movement of the creature at idx aims at a Food cell
MoveOntoFood ==
    /\ Resolved /\ lastEv'.accepted
    /\ IsMove(lastEv')
    /\ grid[lastEv'.candidate] = FOOD

\* Food goes away only under an accepted "eat" on the eater's own cell, and
\* no rejected proposal, sound action, stay or listen changes the grid
FoodFrame ==
    /\ \A c \in Cells :
          (grid[c] = FOOD /\ grid'[c] # FOOD) =>
              /\ grid'[c] = EMPTY
              /\ Resolved /\ lastEv'.accepted
              /\ lastEv'.action = "eat"
              /\ position[idx] = c
    /\ MoveOntoFood => grid'[lastEv'.candidate] = FOOD
    /\ ( /\ Resolved
         /\ \/ ~lastEv'.accepted
            \/ IsSoundAction(lastEv'.action)
            \/ lastEv'.action \in {"stay", "listen"} )
       => grid' = grid

\* C22 as stated: Food changes to Empty only through an accepted "eat" of a
\* creature standing on the cell; an accepted move whose candidate cell is
\* Food reports "found_food" and leaves the cell Food; no rejected proposal,
\* sound action or stay/listen changes any cell.
FoodOnlyEaten ==
    [][/\ FoodFrame
       /\ MoveOntoFood => lastEv'.effect = "found_food"]_vars

\* C22 as amended: the same, except that a move onto a Food cell that is the
\* table entry of another creature is cancelled and reports "collision".
FoodOnlyEatenUnlessTaken ==
    [][/\ FoodFrame
       /\ MoveOntoFood =>
             IF BlockedByCreature(creature_positions, idx, lastEv'.candidate)
             THEN lastEv'.effect = "collision" /\ position'[idx] = position[idx]
             ELSE lastEv'.effect = "found_food"
                  /\ position'[idx] = lastEv'.candidate]_vars

\* a creature stands on a Food cell it moved onto without eating it
StandsOnFoundFood ==
    /\ Executed /\ IsMove(lastEv)
    /\ lastEv.effect = "found_food"
    /\ position[lastEv.creature_id] = lastEv.candidate
    /\ grid[lastEv.candidate] = FOOD

\* C23: after any number of process_experience calls, the outcome history
\* stored for each situation fingerprint holds at most 10 rewards.
OutcomeHistoryBounded ==
    \A k \in SituationKeys : Len(mood.situation_outcomes[k]) <= RecentOutcomes

\* the last n entries of a sequence
LastN(q, n) == IF Len(q) > n THEN SubSeq(q, Len(q) - n + 1, Len(q)) ELSE q

\* C24: the perception memory is a bounded FIFO. It never holds more than 20
\* entries, and every process_timestep call leaves the 20 most recent
\* perceptions in arrival order: the new one is appended at the end and, on
\* overflow, the oldest one is dropped.
PerceptionMemoryFifo ==
    [][/\ Len(brain'.perception_memory) <= MaxMemory
       /\ (ret'.op = "process_timestep" /\ ret'.seq = ret.seq + 1) =>
             LET memory == brain'.perception_memory
                 newest == memory[Len(memory)]
             IN  /\ memory # <<>>
                 /\ newest \in FoodCounts
                 /\ memory = LastN(Append(brain.perception_memory, newest), MaxMemory)]_vars

\* a full memory whose oldest perception has been evicted
OldestEvicted ==
    /\ ret.op = "process_timestep"
    /\ Len(brain.perception_memory) = MaxMemory
    /\ brain.perception_memory[1] = SeenAt(2)
    /\ brain.perception_memory[MaxMemory] = 10

\* C25: a roster that starts on pairwise distinct positions never has two
\* live creatures on the same cell, from the first tick on.
NoSharedCell ==
    \A i, j \in Creatures :
        (i # j /\ alive[i] /\ alive[j]) => position[i] # position[j]

\* C26: the position table and the roster agree. After each creature's
\* resolution and at every step boundary, the table entry of every creature
\* that has proposed at least once is the creature's roster position, whether
\* the proposal was accepted or rejected and whether or not its input
\* position had to be clamped. The except branches of propose_action and
\* _execute_action are entered by no roster of integer positions.
TableMatchesRoster ==
    \A i \in Tracked(creature_positions) : creature_positions[i] = position[i]

\* a creature that came in from beyond the east edge has moved on the grid
ClampedAndMoved ==
    /\ Executed /\ IsMove(lastEv)
    /\ ~_is_valid_position(lastEv.old_position)
    /\ position[lastEv.creature_id] = lastEv.candidate
    /\ creature_positions[lastEv.creature_id] = lastEv.candidate

\* C27: the two step routines are equivalent. From the same roster, world,
\* position table and step counter and with the same draws, at the end of
\* every step in which nothing raises, simulation_step and
\* SimulationEngine.step have left the same positions, alive flags, brain
\* resources, grid, sound field, position table and step counter.
StepRoutinesAgree ==
    idx = 0 => ret.world = EngineWorld

\* two steps done by both routines, with a death, a sound still in the air
\* and a creature away from its start cell
TwoStepsCompared ==
    /\ idx = 0
    /\ step_count = 2
    /\ ret.world.step_count = 2
    /\ \E i \in Creatures : ~alive[i]
    /\ \E c \in Cells : sound_grid[c][2] > 0
    /\ \E i \in Creatures : position[i] \notin StartCells

\* C28: starvation is fatal. With a positive per-step energy cost and a
\* positive health decay (whole tenths), in a run that keeps executing steps
\* and hands out "found_food" only finitely often, every creature eventually
\* has health <= 0 and is marked dead.
StarvationFatal ==
    \A i \in Creatures : <>(health[i] <= 0 /\ ~alive[i])

\* the roster has died out although every meal of the run was eaten
StarvedAfterMeals ==
    /\ AllDead
    /\ run.meals = MaxMeals
    /\ \A i \in Creatures : health[i] <= 0
    /\ run.state = "returned"

\* C29: a "found_food" outcome never lowers a resource. For every configured
\* starting health and energy, the health and the energy after the heal and
\* refill of process_timestep, before the per-step costs are subtracted, are
\* at least what they were before the call.
FoodNeverLowers ==
    [][(ret'.op = "process_timestep" /\ ret'.seq = ret.seq + 1
        /\ ret'.effect = "found_food") =>
          LET refilled == brain'.energy + brain.energy_cost_per_step
              healed == brain'.health
                        + (IF brain'.energy <= 0 THEN brain.health_decay_rate ELSE 0)
          IN  /\ refilled >= brain.energy
              /\ healed >= brain.health]_vars

\* C30: in the web server, under every interleaving of /start, /stop and
\* /pause requests and of the loop tasks, a run_loop task executes a
\* simulation step only while it is the loop created by the most recent
\* /start and no stop has been requested since that /start.
OnlyLatestLoopSteps ==
    run.last.op = "simulation_step" =>
        /\ run.last.task = run.latest
        /\ ~run.stop_requested

====
